---------------------------- MODULE Spec2Model ----------------------------
(***************************************************************************)
(* A model of the learned optimizer of ricoshin/learned_optimizer:         *)
(*   nn/maskgen_bnn.py          FeatureGenerator, StepGenerator,           *)
(*                              MaskGenerator                              *)
(*   optimizers/neural_bnn_obsrv.py   Optimizer.meta_optimize              *)
(*                                                                         *)
(* Tensors are finite sequences.  Real numbers that the code only adds and *)
(* multiplies by the decay rates are exact rationals <<num, den>>.         *)
(***************************************************************************)
EXTENDS Integers, Sequences, FiniteSets, TLC

VARIABLES
  feature_gen,   \* the Optimizer's FeatureGenerator: [momentum, momentum_sq]
  twin,          \* a second FeatureGenerator instance (another history)
  fed,           \* gradients passed to feature_gen since its last new()
  twin_fed,      \* gradients passed to twin since its last new()
  synced,        \* both generators were reset together and fed alike since
  hist_differ,   \* the two generators' states differed when they were reset
  sg_x,          \* StepGenerator.forward: the last layer's output, per parameter
  sg_step,       \* StepGenerator.forward: the step returned
  mask_gen,      \* the MaskGenerator: [eyes, ones, zeros, gamm_g, gamm_l, lamb]
  bd_args,       \* build_block_diag: the tensors of the last direct call
  bd_out,        \* build_block_diag: what that call returned or raised
  mg_args,       \* MaskGenerator.forward: [size, coef] of the last call
  mg_out,        \* MaskGenerator.forward: what that call returned or raised
  layerwise,     \* MaskGenerator.forward: the groups of the last call
  dl_out,        \* detach_lambdas_: the last call, the state before and after
  pc,            \* meta_optimize: the position in the call
  sb_mode,       \* Optimizer.sb_mode
  generators,    \* the feature_gen / step_gen the Optimizer holds
  training,      \* nn.Module.training of the Optimizer
  mode,          \* meta_optimize's arguments mode, optim_it, unroll
  optim_it,
  unroll,
  iteration,     \* the loop variable
  params,        \* [val, deps]: the values, and the iterations whose
                 \*   generator outputs the tensor reaches through its graph
  w,             \* model_train.params.flat.detach()
  g,             \* model_train.params.grad.flat.detach()
  step,
  nll_train,     \* losses: [val, deps]
  nll_test,
  kld_test,
  total_test,
  unroll_losses, \* [tensor, val, deps]: the int 0 or a tensor
  walltime,
  result_dict,   \* the records appended, in order
  meta_log,      \* the calls made on the meta-optimizer and for it, in order
  freed,         \* the iterations whose graph a backward has freed
  nonfinite_its, \* the iterations whose held-out loss was not finite
  built,         \* the last constructor call: [cls, arg, ok, err, obj]
  ds,            \* the dataset loaded: [metadata, samples]
  sc_call,       \* SubsetClass: the last call, [op, arg]
  subsets        \* SubsetClass: the objects that call returned

fg_vars == <<feature_gen, twin, fed, twin_fed, synced, hist_differ>>
sg_vars == <<sg_x, sg_step>>
ds_vars == <<ds, sc_call, subsets>>
mg_vars == <<mask_gen, bd_args, bd_out, mg_args, mg_out, layerwise, dl_out>>
run_vars == <<pc, sb_mode, generators, training, mode, optim_it, unroll, iteration, params,
              w, g, step, nll_train, nll_test, kld_test, total_test,
              unroll_losses, walltime, result_dict, meta_log, freed,
              nonfinite_its, built>>

-----------------------------------------------------------------------------
(* Bounds                                                                  *)

NParams == 2         \* entries of the flattened parameter / gradient vector
MaxPre == 1          \* forward calls of a generator before the common reset
MaxFwd == 3          \* forward calls after a reset

GradValues == {-1, 2}

Vectors(S) == [1..NParams -> S]

-----------------------------------------------------------------------------
(* Exact rationals                                                         *)

RECURSIVE Gcd(_, _)
Gcd(a, b) == IF b = 0 THEN a ELSE Gcd(b, a % b)

Abs(a) == IF a < 0 THEN -a ELSE a

RNorm(n, d) ==
  LET k == Gcd(Abs(n), Abs(d))
      s == IF d < 0 THEN -1 ELSE 1
  IN  IF n = 0 THEN <<0, 1>> ELSE <<s * (n \div k), s * (d \div k)>>

RInt(n) == <<n, 1>>
RMul(x, y) == RNorm(x[1] * y[1], x[2] * y[2])
RAdd(x, y) ==
  LET k == Gcd(x[2], y[2])
  IN  RNorm(x[1] * (y[2] \div k) + y[1] * (x[2] \div k), x[2] * (y[2] \div k))
ROneMinus(x) == RNorm(x[2] - x[1], x[2])

-----------------------------------------------------------------------------
(* FeatureGenerator (nn/maskgen_bnn.py)                                    *)

None == <<>>

\* decay_values of FeatureGenerator.__init__, as configured here: 0.5, 0.9
DecayValues == << <<1, 2>>, <<9, 10>> >>
Decays == 1..Len(DecayValues)

\* self.momentum = None; self.momentum_sq = None
FGInit == [momentum |-> None, momentum_sq |-> None]

\* a new() that leaves both moments as they are
FGNewNoReset(fg) == fg

\* new(): only the first moment is nulled
FGNew(fg) == [fg EXCEPT !.momentum = None]

\* the two weights exchanged: (1 - r) * m + r * x
EmaSwapped(r, m, x) == RAdd(RMul(ROneMinus(r), m), RMul(r, x))

\* r * m + (1 - r) * x
Ema(r, m, x) == RAdd(RMul(r, m), RMul(ROneMinus(r), x))

\* forward(g, ...): the update of the two moments.  The returned feature is
\* a function of g, w, the new momentum and the layers, and holds no state.
FGForward(fg, grad) ==
  IF fg.momentum = None
  THEN [momentum    |-> [p \in 1..Len(grad) |-> [d \in Decays |-> RInt(grad[p])]],
        momentum_sq |-> [p \in 1..Len(grad) |-> [d \in Decays |-> RInt(grad[p] * grad[p])]]]
  ELSE [momentum    |-> [p \in 1..Len(grad) |->
                          [d \in Decays |->
                            Ema(DecayValues[d], fg.momentum[p][d], RInt(grad[p]))]],
        momentum_sq |-> [p \in 1..Len(grad) |->
                          [d \in Decays |->
                            Ema(DecayValues[d], fg.momentum_sq[p][d],
                                RInt(grad[p] * grad[p]))]]]

FGInitState ==
  /\ feature_gen = FGInit
  /\ twin = FGInit
  /\ fed = <<>>
  /\ twin_fed = <<>>
  /\ synced = FALSE
  /\ hist_differ = FALSE

\* a forward call on the Optimizer's generator alone
FGCall ==
  /\ ~synced
  /\ Len(fed) < MaxPre
  /\ \E grad \in Vectors(GradValues) :
       /\ feature_gen' = FGForward(feature_gen, grad)
       /\ fed' = Append(fed, grad)
  /\ UNCHANGED <<twin, twin_fed, synced, hist_differ, sg_vars, ds_vars, mg_vars, run_vars>>

\* a forward call on the second generator alone
TwinCall ==
  /\ ~synced
  /\ Len(twin_fed) < MaxPre
  /\ \E grad \in Vectors(GradValues) :
       /\ twin' = FGForward(twin, grad)
       /\ twin_fed' = Append(twin_fed, grad)
  /\ UNCHANGED <<feature_gen, fed, synced, hist_differ, sg_vars, ds_vars, mg_vars, run_vars>>

\* new() on both generators: the start of two independent runs
NewBoth ==
  /\ feature_gen' = FGNew(feature_gen)
  /\ twin' = FGNew(twin)
  /\ fed' = <<>>
  /\ twin_fed' = <<>>
  /\ synced' = TRUE
  /\ hist_differ' = IF synced THEN hist_differ ELSE feature_gen # twin
  /\ UNCHANGED <<sg_vars, ds_vars, mg_vars, run_vars>>

\* the same forward call on both generators
BothCall ==
  /\ synced
  /\ Len(fed) < MaxFwd
  /\ \E grad \in Vectors(GradValues) :
       /\ feature_gen' = FGForward(feature_gen, grad)
       /\ twin' = FGForward(twin, grad)
       /\ fed' = Append(fed, grad)
       /\ twin_fed' = Append(twin_fed, grad)
  /\ UNCHANGED <<synced, hist_differ, sg_vars, ds_vars, mg_vars, run_vars>>

-----------------------------------------------------------------------------
(* StepGenerator (nn/maskgen_bnn.py)                                       *)
(*                                                                         *)
(* A float is [k, v]: k = "fin" with the value v, k = "inf" with the sign  *)
(* v, or k = "nan".  The last layer's outputs are whole numbers; exp is    *)
(* held in thousandths and the step in units of 10^-8.                     *)

Fin(v) == [k |-> "fin", v |-> v]
Inf(s) == [k |-> "inf", v |-> s]
NaN == [k |-> "nan", v |-> 0]

Sign(n) == IF n > 0 THEN 1 ELSE IF n < 0 THEN -1 ELSE 0

\* out_temp = 1e-5, as its inverse
OutTempInv == 100000
\* clamp(step, max=0.01, min=-0.01), in units of 10^-8
ClampBound == 1000000

\* the largest argument whose exp is finite in single precision
ExpMaxArg == 88

\* e^a in thousandths for a in -2..2
ExpTable == <<135, 368, 1000, 2718, 7389>>

\* out * self.out_temp, for the outputs enumerated (multiples of 1/out_temp)
TimesOutTemp(out) == out \div OutTempInv

\* torch.exp: overflows to +inf above ExpMaxArg
FExp(a) == IF a > ExpMaxArg THEN Inf(1) ELSE Fin(ExpTable[a + 3])

\* x * n for a float x and a finite n (IEEE 754: inf * 0 is NaN)
FMul(x, n) ==
  CASE x.k = "nan" -> NaN
    [] x.k = "inf" -> IF n = 0 THEN NaN ELSE Inf(x.v * Sign(n))
    [] OTHER -> Fin(x.v * n)

\* torch.clamp of one entry: the set of results.  A NaN entry stays NaN
\* where clamp compares (x < min, x > max), and becomes the upper bound
\* where it is computed as max(min(x, hi), lo) with fmin and fmax.
FClamp(x, lo, hi) ==
  CASE x.k = "nan" -> {NaN, Fin(hi)}
    [] x.k = "inf" -> {IF x.v > 0 THEN Fin(hi) ELSE Fin(lo)}
    [] OTHER -> {Fin(IF x.v < lo THEN lo ELSE IF x.v > hi THEN hi ELSE x.v)}

\* step = torch.exp(out_1 * self.out_temp) * out_2 * self.out_temp
\* (x[1] = out_1, x[2] = out_2; the last factor is the change of unit)
RawStep(x) == FMul(FExp(TimesOutTemp(x[1])), x[2])

\* the steps forward may return for the outputs x of the last layer
StepGenForward(x) ==
  {st \in [1..Len(x) -> {NaN} \cup {Fin(v) : v \in {RawStep(x[p]).v : p \in 1..Len(x)}
                                               \cup {-ClampBound, ClampBound}}] :
     \A p \in 1..Len(x) : st[p] \in FClamp(RawStep(x[p]), -ClampBound, ClampBound)}

\* the log learning rates and directions enumerated
Out1Values == {-200000, 0, 100000, 100000000}
Out2Values == {-200000, -1, 0, 1, 200000}

SGInitState ==
  /\ sg_x = <<>>
  /\ sg_step = <<>>

StepForward ==
  \E x \in Vectors(Out1Values \X Out2Values) :
    \E st \in StepGenForward(x) :
      /\ sg_x' = x
      /\ sg_step' = st
      /\ UNCHANGED <<fg_vars, mg_vars, run_vars, ds_vars>>

NextStep == StepForward

-----------------------------------------------------------------------------
(* Matrices: sequences of rows.  A value that a tensor operation may fail  *)
(* to produce is [ok, m, err].                                             *)

Rows(m) == Len(m)
Cols(m) == IF m = <<>> THEN 0 ELSE Len(m[1])

Ok(m) == [ok |-> TRUE, m |-> m, err |-> ""]
Err(e) == [ok |-> FALSE, m |-> <<>>, err |-> e]

\* torch.zeros(r, c), torch.eye(n), torch.ones(n, n)
MZeros(r, c) == [i \in 1..r |-> [j \in 1..c |-> 0]]
MEye(n) == [i \in 1..n |-> [j \in 1..n |-> IF i = j THEN 1 ELSE 0]]
MOnes(n) == [i \in 1..n |-> [j \in 1..n |-> 1]]
\* an (r x c) tensor holding v everywhere (expand, expand_as)
MFill(r, c, v) == [i \in 1..r |-> [j \in 1..c |-> v]]

\* the broadcast size of two sizes of one dimension, -1 if there is none
BDim(a, b) == IF a = b THEN a ELSE IF a = 1 THEN b ELSE IF b = 1 THEN a ELSE -1

\* the entry of A read at (i, j) of the broadcast result
BAt(A, i, j) == A[IF Rows(A) = 1 THEN 1 ELSE i][IF Cols(A) = 1 THEN 1 ELSE j]

\* A * B, elementwise with broadcasting
BMul(A, B) ==
  LET r == BDim(Rows(A), Rows(B))
      c == BDim(Cols(A), Cols(B))
  IN  IF r < 0 \/ c < 0
      THEN Err("RuntimeError")
      ELSE Ok([i \in 1..r |-> [j \in 1..c |-> BAt(A, i, j) * BAt(B, i, j)]])

\* A + B, elementwise with broadcasting
BAdd(A, B) ==
  LET r == BDim(Rows(A), Rows(B))
      c == BDim(Cols(A), Cols(B))
  IN  IF r < 0 \/ c < 0
      THEN Err("RuntimeError")
      ELSE Ok([i \in 1..r |-> [j \in 1..c |-> BAt(A, i, j) + BAt(B, i, j)]])

RECURSIVE CatRows(_, _)
CatRows(ms, i) ==
  IF ms = <<>> THEN <<>> ELSE ms[1][i] \o CatRows(Tail(ms), i)

\* torch.cat(ms, dim=1): the row counts must agree
Cat1(ms) ==
  IF \E a, b \in 1..Len(ms) : Rows(ms[a]) # Rows(ms[b])
  THEN Err("RuntimeError")
  ELSE Ok([i \in 1..Rows(ms[1]) |-> CatRows(ms, i)])

RECURSIVE Concat(_)
Concat(ms) == IF ms = <<>> THEN <<>> ELSE ms[1] \o Concat(Tail(ms))

\* torch.cat(ms, dim=0): the column counts must agree
Cat0(ms) ==
  IF \E a, b \in 1..Len(ms) : Cols(ms[a]) # Cols(ms[b])
  THEN Err("RuntimeError")
  ELSE Ok(Concat(ms))

RECURSIVE SumTo(_, _)
SumTo(ns, k) == IF k = 0 THEN 0 ELSE ns[k] + SumTo(ns, k - 1)
Sum(ns) == SumTo(ns, Len(ns))

-----------------------------------------------------------------------------
(* MaskGenerator (nn/maskgen_bnn.py)                                       *)

\* a cached zero block that is None
NoBlock == [none |-> TRUE, m |-> <<>>]
Block(m) == [none |-> FALSE, m |-> m]

\* lines 203-221: the left and right zero blocks of every tensor
MakeZeros(tensors) ==
  LET size == [i \in 1..Len(tensors) |-> Rows(tensors[i])]
      total_size == Sum(size)
  IN  [i \in 1..Len(tensors) |->
        LET cur == Rows(tensors[i])
        IN  << IF i = 1 THEN NoBlock ELSE Block(MZeros(cur, SumTo(size, i - 1))),
               IF i = Len(tensors) THEN NoBlock
               ELSE Block(MZeros(cur, total_size - SumTo(size, i))) >>]

\* line 202: the zero blocks are built only while self.zeros is None
ZerosFor(zeros, tensors) == IF zeros = None THEN MakeZeros(tensors) ELSE zeros

\* lines 225-232: one block row, torch.cat([left,] tensor [, right], dim=1)
BlockRow(zeros, tensors, i) ==
  IF i > Len(zeros)
  THEN Err("IndexError")
  ELSE Cat1((IF zeros[i][1].none THEN <<>> ELSE <<zeros[i][1].m>>)
            \o <<tensors[i]>>
            \o (IF zeros[i][2].none THEN <<>> ELSE <<zeros[i][2].m>>))

\* build_block_diag(tensors) on a generator whose self.zeros is zeros:
\* the new self.zeros and the matrix returned or the exception raised
BuildBlockDiag(zeros, tensors) ==
  LET zs == ZerosFor(zeros, tensors)
      rows == [i \in 1..Len(tensors) |-> BlockRow(zs, tensors, i)]
      bad == {i \in 1..Len(tensors) : ~rows[i].ok}
      first == CHOOSE i \in bad : \A j \in bad : i <= j
  IN  [zeros |-> zs,
       out |-> IF bad # {} THEN Err(rows[first].err)
               ELSE Cat0([i \in 1..Len(tensors) |-> rows[i].m])]

\* an attribute that __init__ does not assign
Unset == <<"unset">>

\* a tensor: its values (in units of its scale) and whether it has a graph
Tensor(val, graph) == <<"tensor", val, graph>>
\* a python list of tensors
TensorList(items) == <<"list">> \o items

\* __init__: the caches and the running coefficients; self.lamb is not
\* assigned
MGInit ==
  [eyes |-> None, ones |-> None, zeros |-> None,
   gamm_g |-> None, gamm_l |-> None, lamb |-> Unset]

\* the running coefficients of a generator
Running(mg) == [gamm_g |-> mg.gamm_g, gamm_l |-> mg.gamm_l, lamb |-> mg.lamb]

\* t.detach()
DetachTensor(t) == Tensor(t[2], FALSE)

\* [l.detach() for l in x]: the entries of a list, the rows of a tensor
DetachEach(x) ==
  IF x[1] = "list"
  THEN TensorList([i \in 1..(Len(x) - 1) |-> DetachTensor(x[i + 1])])
  ELSE TensorList([i \in 1..Len(x[2]) |-> Tensor(x[2][i], FALSE)])

\* detach_lambdas_() (lines 184-190): the new state, or the state reached
\* when reading an attribute raises
DetachLambdas(mg) ==
  LET mg1 == IF mg.gamm_g # None
             THEN [mg EXCEPT !.gamm_g = DetachTensor(@)] ELSE mg
      mg2 == IF mg1.gamm_l # None
             THEN [mg1 EXCEPT !.gamm_l = DetachEach(@)] ELSE mg1
  IN  IF mg2.lamb = Unset
      THEN [mg |-> mg2, ok |-> FALSE, err |-> "AttributeError"]
      ELSE [mg |-> IF mg2.lamb # None
                   THEN [mg2 EXCEPT !.lamb = DetachTensor(@)] ELSE mg2,
            ok |-> TRUE, err |-> ""]

MaxLayers == 3       \* tensors of a build_block_diag call, layers of a shape map
MaxUnits == 2        \* rows of a block, output units of a layer

SizeLists == UNION {[1..k -> 1..MaxUnits] : k \in 1..MaxLayers}

\* the square tensors of a direct call: block i of size n, distinct entries
TensorsOf(sizes) ==
  [i \in 1..Len(sizes) |->
    [r \in 1..sizes[i] |-> [c \in 1..sizes[i] |-> 100 * i + 10 * r + c]]]

MGInitState ==
  /\ mask_gen = MGInit
  /\ bd_args = <<>>
  /\ bd_out = Ok(<<>>)
  /\ mg_args = <<>>
  /\ mg_out = [ok |-> TRUE, err |-> "", blend |-> <<>>, mask |-> <<>>]
  /\ layerwise = <<>>
  /\ dl_out = [called |-> FALSE, ok |-> TRUE, err |-> "",
               before |-> Running(MGInit), after |-> Running(MGInit)]

\* a call of build_block_diag
BuildCall ==
  /\ \E sizes \in SizeLists :
       LET res == BuildBlockDiag(mask_gen.zeros, TensorsOf(sizes))
       IN  /\ mask_gen' = [mask_gen EXCEPT !.zeros = res.zeros]
           /\ bd_args' = TensorsOf(sizes)
           /\ bd_out' = res.out
  /\ UNCHANGED <<mg_args, mg_out, layerwise, dl_out, fg_vars, sg_vars, ds_vars, run_vars>>

\* hidden_sz
HiddenSz == 2

LayerIds == <<"0", "1", "2", "3">>

\* the shape map of a network whose layer l has units[l] output units:
\* {'mat_l': (in, out), 'bias_l': (out,)} in this order
ShapeMapOf(units) ==
  [k \in 1..(2 * Len(units)) |->
    LET l == (k + 1) \div 2
    IN  IF k % 2 = 1
        THEN [name |-> <<"mat", LayerIds[l]>>, shape |-> <<l + 1, units[l]>>]
        ELSE [name |-> <<"bias", LayerIds[l]>>, shape |-> <<units[l]>>]]

ShapeMaps == {ShapeMapOf(units) : units \in SizeLists}

\* the same network with the weight matrices before the biases
ShapeMapMatsFirst(units) ==
  LET L == Len(units)
  IN  [k \in 1..(2 * L) |->
        IF k <= L
        THEN [name |-> <<"mat", LayerIds[k]>>, shape |-> <<k + 1, units[k]>>]
        ELSE [name |-> <<"bias", LayerIds[k - L]>>, shape |-> <<units[k - L]>>]]

ShapeMapsAnyOrder == ShapeMaps \cup {ShapeMapMatsFirst(units) : units \in SizeLists}

\* what the averaging layers put out (line 307), as the means taken of it:
\* lamb, gamm_g and one gamm_l per layer
Coefs == {[lamb |-> 7, gamm_g |-> 3, gamm_l |-> <<1, 2, 4, 5>>],
          [lamb |-> 5, gamm_g |-> 2, gamm_l |-> <<3, 1, 6, 4>>]}

Max(S) == CHOOSE a \in S : \A b \in S : b <= a

\* lines 257-265: the size of every block of x, the hidden dimension last,
\* with a leading 1 for the blocks one dimension short
XSetSizes(size) ==
  LET max_dim == Max({Len(size[k].shape) + 1 : k \in 1..Len(size)})
  IN  [k \in 1..Len(size) |->
        IF Len(size[k].shape) + 1 < max_dim
        THEN <<1>> \o size[k].shape \o <<HiddenSz>>
        ELSE size[k].shape \o <<HiddenSz>>]

\* line 264
UnsqueezeAssert(size) ==
  LET max_dim == Max({Len(size[k].shape) + 1 : k \in 1..Len(size)})
  IN  \A k \in 1..Len(size) : max_dim - (Len(size[k].shape) + 1) <= 1

\* the first piece of the key: n.split('_')[0]
LayerOfPrefix(name) == name[1]

\* line 276: n.split('_')[1], a key being the pieces between its '_'
LayerOf(name) == name[2]

\* lines 274-280: the keys of layerwise, in the order of their first entry
RECURSIVE LayerKeys(_)
LayerKeys(size) ==
  IF size = <<>> THEN <<>>
  ELSE LET front == LayerKeys(SubSeq(size, 1, Len(size) - 1))
           n_set == LayerOf(size[Len(size)].name)
       IN  IF \E i \in 1..Len(front) : front[i] = n_set
           THEN front ELSE Append(front, n_set)

\* layerwise[n_set]: the entries of the shape map grouped under n_set
GroupOf(size, n_set) == {k \in 1..Len(size) : LayerOf(size[k].name) = n_set}

\* line 282: torch.cat(xs, dim=0).mean(0) of a group: the size left, or
\* <<>> when the blocks cannot be concatenated
GroupMeanSize(size, n_set) ==
  LET dims == XSetSizes(size)
      grp == GroupOf(size, n_set)
      k0 == CHOOSE k \in grp : TRUE
  IN  IF \A k \in grp : Tail(dims[k]) = Tail(dims[k0])
      THEN Tail(dims[k0]) ELSE <<>>

\* x_set_sizes of line 283
XSetMeanSizes(size) ==
  LET keys == LayerKeys(size)
  IN  [i \in 1..Len(keys) |-> GroupMeanSize(size, keys[i])]

\* line 291: self.eyes is None or not self.eyes.size(0) == (x_set.size(0) * 2)
EyesRebuilt(eyes, n) == eyes = None \/ ~(Rows(eyes) = n * 2)

\* forward(x, size) with coef what the averaging layers yield: the new
\* state of the generator and [ok, err, blend, mask], blend the matrix
\* lamb + gamm_g + gamm_l of line 338 and mask the keys and lengths of the
\* mask tensors returned
MGForward(mg, size, coef) ==
  LET sizes == XSetMeanSizes(size)
      keys == LayerKeys(size)
      flat == \A i \in 1..Len(sizes) : Len(sizes[i]) = 2 /\ sizes[i][2] = HiddenSz
      units == [i \in 1..Len(sizes) |-> sizes[i][1]]
      n == Sum(units)
      fail(m, e) == [mg |-> m, out |-> [ok |-> FALSE, err |-> e,
                                         blend |-> <<>>, mask |-> <<>>]]
      \* lines 291-293
      mg1 == IF EyesRebuilt(mg.eyes, n)
             THEN [mg EXCEPT !.eyes = MEye(n), !.ones = MOnes(n)] ELSE mg
      \* lines 299-303
      mg2 == IF mg1.gamm_g = None \/ mg1.gamm_l = None
             THEN [mg1 EXCEPT !.gamm_g = Tensor(MOnes(n), FALSE),
                              !.gamm_l = Tensor(MOnes(n), FALSE),
                              !.lamb = Tensor(MOnes(n), FALSE)]
             ELSE mg1
      \* lines 309-313
      mg3 == [mg2 EXCEPT !.lamb = Tensor(<<coef.lamb>>, TRUE)]
      lamb == BMul(MFill(n, 1, coef.lamb), mg3.eyes)
      \* lines 316-320
      mg4 == [mg3 EXCEPT !.gamm_g = Tensor(<<coef.gamm_g>>, TRUE)]
      gamm_g == BMul(MFill(n, 1, coef.gamm_g), mg4.ones)
      \* lines 323-332
      mg5 == [mg4 EXCEPT !.gamm_l =
                TensorList([i \in 1..Len(units) |->
                             Tensor(<<coef.gamm_l[i]>>, TRUE)])]
      blocks == [i \in 1..Len(units) |-> MFill(units[i], units[i], coef.gamm_l[i])]
      bd == BuildBlockDiag(mg5.zeros, blocks)
      mg6 == [mg5 EXCEPT !.zeros = bd.zeros]
      \* line 338
      sum1 == BAdd(lamb.m, gamm_g.m)
      blend == BAdd(sum1.m, bd.out.m)
  IN  IF ~UnsqueezeAssert(size) THEN fail(mg, "AssertionError")
      ELSE IF ~flat THEN fail(mg, "RuntimeError")
      ELSE IF ~lamb.ok THEN fail(mg3, lamb.err)
      ELSE IF ~gamm_g.ok THEN fail(mg4, gamm_g.err)
      ELSE IF ~bd.out.ok THEN fail(mg6, bd.out.err)
      ELSE IF ~sum1.ok THEN fail(mg6, sum1.err)
      ELSE IF ~blend.ok THEN fail(mg6, blend.err)
      \* x_set.t().matmul(...): (hidden x n) times the blend
      ELSE IF Rows(blend.m) # n THEN fail(mg6, "RuntimeError")
      \* line 352: torch.split(mask, [s[0] for s in x_set_sizes])
      ELSE IF Cols(blend.m) # n THEN fail(mg6, "RuntimeError")
      ELSE [mg |-> mg6,
            out |-> [ok |-> TRUE, err |-> "", blend |-> blend.m,
                     mask |-> [i \in 1..Len(keys) |-> <<keys[i], units[i]>>]]]

\* lines 274-280: layerwise, the groups in the order of their first key,
\* each the entries of the shape map appended to it
Layerwise(size) ==
  LET keys == LayerKeys(size)
  IN  [i \in 1..Len(keys) |-> [n_set |-> keys[i], xs |-> GroupOf(size, keys[i])]]

\* a call of forward with a shape map of maps
ForwardWith(maps) ==
  /\ \E size \in maps : \E coef \in Coefs :
       LET res == MGForward(mask_gen, size, coef)
       IN  /\ mask_gen' = res.mg
           /\ mg_args' = <<size, coef>>
           /\ mg_out' = res.out
           /\ layerwise' = IF UnsqueezeAssert(size) THEN Layerwise(size) ELSE <<>>
  /\ UNCHANGED <<bd_args, bd_out, dl_out, fg_vars, sg_vars, ds_vars, run_vars>>

\* a call of forward
ForwardCall == ForwardWith(ShapeMaps)

\* a call of detach_lambdas_
DetachCall ==
  /\ LET res == DetachLambdas(mask_gen)
     IN  /\ mask_gen' = res.mg
         /\ dl_out' = [called |-> TRUE, ok |-> res.ok, err |-> res.err,
                       before |-> Running(mask_gen), after |-> Running(res.mg)]
  /\ UNCHANGED <<bd_args, bd_out, mg_args, mg_out, layerwise, fg_vars, sg_vars, ds_vars,
                 run_vars>>

NextBlockDiag == BuildCall

\* forward on a generator just constructed
FirstForwardCall ==
  /\ mask_gen = MGInit
  /\ mg_args = <<>>
  /\ ForwardWith(ShapeMapsAnyOrder)

NextMask == ForwardCall

NextFirstForward == FirstForwardCall

NextDetach == FirstForwardCall \/ DetachCall

-----------------------------------------------------------------------------
(* Optimizer.meta_optimize (optimizers/neural_bnn_obsrv.py)                *)
(*                                                                         *)
(* The driver calls self.step_gen.new(), self.feature_gen(g) and           *)
(* self.step_gen.log_lr, which the StepGenerator and FeatureGenerator of   *)
(* nn/maskgen_bnn.py do not offer under these names and signatures: with   *)
(* them the call raises AttributeError at line 59.  The loop is modelled   *)
(* for generators that offer what the driver calls: new() resets,          *)
(* feature_gen(g) updates the moments, step_gen yields the step.  The      *)
(* target model, ParamsFlattener, utils.isnan and the                      *)
(* meta-optimizer are outside these files and follow the specification.    *)
(* A tensor's graph is the set of iterations whose generator outputs it    *)
(* reaches.                                                                *)

MaxIt == 3           \* optim_it
MaxUnroll == 2       \* unroll

Modes == {"train", "valid", "test"}
SbModes == {"none", "normal", "unified"}

\* the values passed as mode
ModeArgs == Modes \cup {"eval"}

\* line 46: assert mode in ['train', 'valid', 'test']
ModeOk(m) == m \in Modes

\* the generators of nn/maskgen_bnn.py, or generators offering what the
\* driver calls
Generators == {"maskgen_bnn", "as_called"}

\* line 59: self.step_gen.new(); StepGenerator defines no method new
HasNew(gen) == gen = "as_called"

StepValues == {-1, 1}
\* the steps enumerated: the same value in every entry
StepVectors == {[p \in 1..NParams |-> v] : v \in StepValues}

\* C(model_cls()).params: the freshly initialised parameters
InitialParams == [val |-> [p \in 1..NParams |-> 0], deps |-> {}]

\* the target model's loss on a batch: the sum of the squared parameters
LossOf(v) == Sum([p \in 1..Len(v) |-> v[p] * v[p]])
\* and its gradient
GradOf(v) == [p \in 1..Len(v) |-> 2 * v[p]]

\* a loss is [val, deps, finite]; torch.tensor(0.)
NoLoss == [val |-> 0, deps |-> {}, finite |-> TRUE]

\* utils.isnan: a non-finite loss is replaced by a zero outside the graph
IsNanGuard(nonfinite, loss) == IF nonfinite THEN NoLoss ELSE loss

\* params + step: a new tensor, one node deeper in the graph
ParamsAdd(ps, st, it) ==
  [val |-> [p \in 1..Len(ps.val) |-> ps.val[p] + st[p]],
   deps |-> ps.deps \cup {it}]

\* params.detach_()
ParamsDetach(ps) == [ps EXCEPT !.deps = {}]

\* every mode taken for the train mode
TrainModeAny(m) == TRUE

\* line 145: mode == 'train'
TrainMode(m) == m = "train"

\* line 146: not iteration % unroll == 0
NoUpdateAt(it, u) == ~(it % u = 0)

\* a boundary in train mode only: mode == 'train' and iteration % unroll == 0
IsBoundaryTrainOnly(m, it, u) == m = "train" /\ it % u = 0

\* line 155: not mode == 'train' or iteration % unroll == 0
IsBoundary(m, it, u) == ~(m = "train") \/ it % u = 0

\* unroll_losses = 0
IntZero == [tensor |-> FALSE, val |-> 0, deps |-> {}, finite |-> TRUE]

\* unroll_losses += total_test
AddLoss(acc, loss) ==
  [tensor |-> TRUE, val |-> acc.val + loss.val, deps |-> acc.deps \cup loss.deps,
   finite |-> acc.finite /\ loss.finite]

Call(it, op, val, deps) == [it |-> it, op |-> op, val |-> val, deps |-> deps]

RunInitState ==
  /\ pc = "idle"
  /\ sb_mode \in SbModes
  /\ generators \in Generators
  /\ training = TRUE
  /\ mode = "train"
  /\ optim_it = 0
  /\ unroll = 1
  /\ iteration = 0
  /\ params = InitialParams
  /\ w = InitialParams.val
  /\ g = InitialParams.val
  /\ step = InitialParams.val
  /\ nll_train = NoLoss
  /\ nll_test = NoLoss
  /\ kld_test = NoLoss
  /\ total_test = NoLoss
  /\ unroll_losses = IntZero
  /\ walltime = 0
  /\ result_dict = <<>>
  /\ meta_log = <<>>
  /\ freed = {}
  /\ nonfinite_its = {}
  /\ built = [cls |-> "Optimizer", arg |-> sb_mode, ok |-> TRUE, err |-> "",
              obj |-> <<[sb_mode |-> sb_mode]>>]

\* the end of an iteration: the next one, or return result_dict
LoopNext == IF iteration < optim_it THEN "fwd_train" ELSE "done"

\* lines 46-71: the call, up to the loop (the assignments of lines 52-57
\* give the values the variables hold before the call)
Enter ==
  /\ pc = "idle"
  /\ \E m \in ModeArgs : \E n \in 1..MaxIt : \E u \in 1..MaxUnroll :
       /\ mode' = m
       /\ optim_it' = n
       /\ unroll' = u
       /\ IF ~ModeOk(m)
          THEN \* line 46: AssertionError
               /\ pc' = "raised"
               /\ iteration' = 0
               /\ UNCHANGED <<training, feature_gen>>
          ELSE /\ training' = (m = "train")
               /\ feature_gen' = FGNew(feature_gen)
               /\ iteration' = IF HasNew(generators) THEN 1 ELSE 0
               /\ pc' = IF HasNew(generators) THEN "fwd_train" ELSE "raised"
  /\ result_dict' = <<>>
  /\ unroll_losses' = IntZero
  /\ walltime' = 0
  /\ kld_test' = NoLoss
  /\ params' = InitialParams
  /\ fed' = <<>>
  /\ UNCHANGED <<built, nonfinite_its, sb_mode, generators, w, g, step, nll_train, nll_test,
                 total_test, meta_log, freed, twin, twin_fed, synced, hist_differ,
                 sg_vars, ds_vars, mg_vars>>

\* lines 84-89: the training loss of the detached parameters, its gradient
ForwardTrain ==
  /\ pc = "fwd_train"
  /\ nll_train' = [val |-> LossOf(params.val), deps |-> {}, finite |-> TRUE]
  /\ g' = GradOf(params.val)
  /\ w' = params.val
  /\ pc' = "generate"
  /\ UNCHANGED <<built, nonfinite_its, sb_mode, generators, training, mode, optim_it, unroll, iteration, params,
                 step, nll_test, kld_test, total_test, unroll_losses,
                 walltime, result_dict, meta_log, freed, fg_vars, sg_vars, ds_vars,
                 mg_vars>>

\* lines 92-95: the feature and the step
Generate ==
  /\ pc = "generate"
  /\ feature_gen' = FGForward(feature_gen, g)
  /\ fed' = Append(fed, g)
  /\ step' \in StepVectors
  /\ pc' = "apply"
  /\ UNCHANGED <<built, nonfinite_its, sb_mode, generators, training, mode, optim_it, unroll, iteration, params,
                 w, g, nll_train, nll_test, kld_test, total_test,
                 unroll_losses, walltime, result_dict, meta_log, freed, twin,
                 twin_fed, synced, hist_differ, sg_vars, ds_vars, mg_vars>>

\* lines 109-136: the update; the mask is neither generated nor applied
Apply ==
  /\ pc = "apply"
  /\ params' = ParamsAdd(params, step, iteration)
  /\ walltime' = IF ~(mode = "train") THEN walltime + 1 ELSE walltime
  /\ pc' = "fwd_test"
  /\ UNCHANGED <<built, nonfinite_its, sb_mode, generators, training, mode, optim_it, unroll, iteration, w, g,
                 step, nll_train, nll_test, kld_test, total_test,
                 unroll_losses, result_dict, meta_log, freed, fg_vars,
                 sg_vars, ds_vars, mg_vars>>

\* lines 138-140: the held-out loss of the new parameters
ForwardTest ==
  /\ pc = "fwd_test"
  /\ \E nonfinite \in BOOLEAN :
       LET loss == IsNanGuard(nonfinite,
                              [val |-> LossOf(params.val), deps |-> params.deps,
                               finite |-> ~nonfinite])
       IN  /\ nll_test' = loss
           /\ total_test' = [val |-> loss.val + kld_test.val,
                             deps |-> loss.deps \cup kld_test.deps,
                             finite |-> loss.finite /\ kld_test.finite]
           /\ nonfinite_its' = IF nonfinite
                                THEN nonfinite_its \cup {iteration}
                                ELSE nonfinite_its
  /\ pc' = "accumulate"
  /\ UNCHANGED <<built, sb_mode, generators, training, mode, optim_it, unroll, iteration, params,
                 w, g, step, nll_train, kld_test, unroll_losses, walltime,
                 result_dict, meta_log, freed, fg_vars, sg_vars, ds_vars, mg_vars>>

\* lines 145-147: no meta-update at this iteration
Accumulate ==
  /\ pc = "accumulate"
  /\ ~(TrainMode(mode) /\ ~NoUpdateAt(iteration, unroll))
  /\ unroll_losses' = IF TrainMode(mode)
                      THEN AddLoss(unroll_losses, total_test)
                      ELSE unroll_losses
  /\ pc' = "detach"
  /\ UNCHANGED <<built, nonfinite_its, sb_mode, generators, training, mode, optim_it, unroll, iteration, params,
                 w, g, step, nll_train, nll_test, kld_test, total_test,
                 walltime, result_dict, meta_log, freed, fg_vars, sg_vars, ds_vars,
                 mg_vars>>

\* lines 148-153: the meta-update.  backward is a method of tensors: on the
\* int 0 it raises, as it does through a graph already freed.
MetaUpdate ==
  /\ pc = "accumulate"
  /\ TrainMode(mode) /\ ~NoUpdateAt(iteration, unroll)
  /\ IF ~unroll_losses.tensor \/ unroll_losses.deps \cap freed # {}
     THEN /\ meta_log' = Append(meta_log, Call(iteration, "zero_grad", 0, {}))
          /\ pc' = "raised"
          /\ UNCHANGED <<unroll_losses, freed>>
     ELSE /\ meta_log' = meta_log \o
               << Call(iteration, "zero_grad", 0, {}),
                  Call(iteration, "backward", unroll_losses.val, unroll_losses.deps),
                  Call(iteration, "clip_grad_value_", 0, {}),
                  Call(iteration, "step", 0, {}),
                  Call(iteration, "reset", 0, {}) >>
          /\ freed' = freed \cup unroll_losses.deps
          /\ unroll_losses' = IntZero
          /\ pc' = "detach"
  /\ UNCHANGED <<built, nonfinite_its, sb_mode, generators, training, mode, optim_it, unroll, iteration, params,
                 w, g, step, nll_train, nll_test, kld_test, total_test,
                 walltime, result_dict, fg_vars, sg_vars, ds_vars, mg_vars>>

\* lines 155-162: the truncation boundary
Detach ==
  /\ pc = "detach"
  /\ params' = IF IsBoundary(mode, iteration, unroll)
               THEN ParamsDetach(params) ELSE params
  /\ walltime' = IF mode = "train" THEN walltime + 1 ELSE walltime
  /\ pc' = "record"
  /\ UNCHANGED <<built, nonfinite_its, sb_mode, generators, training, mode, optim_it, unroll, iteration, w, g,
                 step, nll_train, nll_test, kld_test, total_test,
                 unroll_losses, result_dict, meta_log, freed, fg_vars,
                 sg_vars, ds_vars, mg_vars>>

\* lines 165-173 and the loop's next iteration, or line 177
Record ==
  /\ pc = "record"
  /\ result_dict' = Append(result_dict,
       [nll_train |-> nll_train.val, nll_test |-> nll_test.val,
        kld_test |-> kld_test.val, total_test |-> total_test.val,
        walltime |-> walltime])
  /\ pc' = LoopNext
  /\ iteration' = IF iteration < optim_it THEN iteration + 1 ELSE iteration
  /\ UNCHANGED <<built, nonfinite_its, sb_mode, generators, training, mode, optim_it, unroll, params, w, g,
                 step, nll_train, nll_test, kld_test, total_test,
                 unroll_losses, walltime, meta_log, freed, fg_vars, sg_vars, ds_vars,
                 mg_vars>>

\* the values passed as sb_mode and as n_layers
SbModeArgs == SbModes \cup {"both", ""}
MaxNLayers == 2
NLayerArgs == -1..MaxNLayers

\* a construction that raised, and one that returned obj
Raised(cls, arg) ==
  [cls |-> cls, arg |-> arg, ok |-> FALSE, err |-> "AssertionError", obj |-> <<>>]
Returned(cls, arg, obj) ==
  [cls |-> cls, arg |-> arg, ok |-> TRUE, err |-> "", obj |-> <<obj>>]

\* neural_bnn_obsrv.py line 28: assert sb_mode in ['none', 'normal', 'unified']
SbModeOk(sb) == sb \in SbModes

\* zero layers accepted
NLayersOkFromZero(n) == n >= 0

\* maskgen_bnn.py lines 32, 108, 157: assert n_layers > 0
NLayersOk(n) == n > 0

\* Optimizer(hidden_sz, sb_mode)
NewOptimizer ==
  /\ \E sb \in SbModeArgs :
       built' = IF SbModeOk(sb)
                THEN Returned("Optimizer", sb, [sb_mode |-> sb])
                ELSE Raised("Optimizer", sb)
  /\ UNCHANGED <<pc, sb_mode, generators, training, mode, optim_it, unroll,
                 iteration, params, w, g, step, nll_train, nll_test, kld_test,
                 total_test, unroll_losses, walltime, result_dict, meta_log,
                 freed, nonfinite_its, fg_vars, sg_vars, ds_vars, mg_vars>>

\* FeatureGenerator(hidden_sz, n_layers), StepGenerator(hidden_sz, n_layers)
\* or MaskGenerator(hidden_sz, n_layers)
NewGenerator ==
  /\ \E cls \in {"FeatureGenerator", "StepGenerator", "MaskGenerator"} :
       \E n \in NLayerArgs :
         built' = IF NLayersOk(n)
                  THEN Returned(cls, n, [n_layers |-> n])
                  ELSE Raised(cls, n)
  /\ UNCHANGED <<pc, sb_mode, generators, training, mode, optim_it, unroll,
                 iteration, params, w, g, step, nll_train, nll_test, kld_test,
                 total_test, unroll_losses, walltime, result_dict, meta_log,
                 freed, nonfinite_its, fg_vars, sg_vars, ds_vars, mg_vars>>

NextConfig ==
  \/ NewOptimizer
  \/ NewGenerator
  \/ Enter

NextRun ==
  \/ Enter
  \/ ForwardTrain
  \/ Generate
  \/ Apply
  \/ ForwardTest
  \/ Accumulate
  \/ MetaUpdate
  \/ Detach
  \/ Record

-----------------------------------------------------------------------------
(* Metadata and SubsetClass (datasets/dataset_helpers.py), over a dataset  *)
(* laid out as DatasetFolder lays it out (datasets/dataset_folder.py).     *)
(* Python positions and class indices start at 0; a dict is the sequence   *)
(* of its <<key, value>> pairs in insertion order.                         *)

MaxClasses == 3      \* classes of a dataset
MaxSamples == 2      \* samples of a class
RatioDen == 4        \* ratio = num / RatioDen

ClassNames == <<"a", "b", "c", "d", "e">>

\* seq[i] of python
Nth(seq, i) == seq[i + 1]

\* dict[key]
Lookup(dict, key) == dict[CHOOSE i \in 1..Len(dict) : dict[i][1] = key][2]

\* the values of a dict, in order
Values(dict) == [i \in 1..Len(dict) |-> dict[i][2]]

\* _find_classes and make_dataset: class i - 1 holds sizes[i] samples, a
\* sample is (path, idx), the path named by the sample's place in the
\* sorted walk
MakeMetadata(sizes) ==
  LET K == Len(sizes)
  IN  [classes |-> [i \in 1..K |-> ClassNames[i]],
       class_to_idx |-> [i \in 1..K |-> <<ClassNames[i], i - 1>>],
       idx_to_class |-> [i \in 1..K |-> <<i - 1, ClassNames[i]>>],
       idx_to_samples |->
         [i \in 1..K |->
           <<i - 1, [j \in 1..sizes[i] |-> <<SumTo(sizes, i - 1) + j - 1, i - 1>>]>>]]

\* _set_samples_n_targets: the samples of the classes, one class after
\* the other
DatasetOf(sizes) ==
  LET metadata == MakeMetadata(sizes)
  IN  [metadata |-> metadata, samples |-> Concat(Values(metadata.idx_to_samples))]

Datasets ==
  {DatasetOf(sizes) : sizes \in UNION {[1..k -> 1..MaxSamples] : k \in 1..MaxClasses}}

\* Metadata.relative_index(rel_indices)
RelativeIndex(meta, rel_indices) ==
  LET abs_indices == [i \in 1..Len(meta.idx_to_samples) |-> meta.idx_to_samples[i][1]]
      indices == [i \in 1..Len(rel_indices) |-> Nth(abs_indices, rel_indices[i])]
      classes == [i \in 1..Len(indices) |-> Lookup(meta.idx_to_class, indices[i])]
  IN  [classes |-> classes,
       class_to_idx |-> [i \in 1..Len(classes) |->
                          <<classes[i], Lookup(meta.class_to_idx, classes[i])>>],
       idx_to_class |-> [i \in 1..Len(classes) |->
                          <<Lookup(meta.class_to_idx, classes[i]), classes[i]>>],
       idx_to_samples |-> [i \in 1..Len(indices) |->
                            <<indices[i], Lookup(meta.idx_to_samples, indices[i])>>]]

\* SubsetClass(dataset): idx is None
SubsetClassAll(dataset) ==
  [indices |-> [p \in 1..Len(dataset.samples) |-> p - 1],
   metadata |-> dataset.metadata]

\* lines 93-103: range(prev, curr) for every class kept, prev from 0
IndicesFromZero(metadata) ==
  LET lens == [i \in 1..Len(metadata.idx_to_samples) |->
                Len(metadata.idx_to_samples[i][2])]
  IN  [p \in 1..Sum(lens) |-> p - 1]

\* SubsetClass(dataset, idx) with a list idx
SubsetClassOf(dataset, idx) ==
  LET metadata == RelativeIndex(dataset.metadata, idx)
  IN  [indices |-> IndicesFromZero(metadata), metadata |-> metadata]

\* SubsetClass.__getitem__(i): dataset[self.indices[i]], a (path, target)
GetItem(dataset, subset, i) == Nth(dataset.samples, Nth(subset.indices, i))

\* SubsetClass.split(dataset, ratio) with ratio = num / RatioDen
Split(dataset, num) ==
  LET n_classes == Len(dataset.metadata.classes)
      idx == [i \in 1..n_classes |-> i - 1]
      thres == (n_classes * num) \div RatioDen
  IN  << SubsetClassOf(dataset, SubSeq(idx, 1, thres)),
         SubsetClassOf(dataset, SubSeq(idx, thres + 1, n_classes)) >>

\* the elements of S in increasing order
RECURSIVE Increasing(_)
Increasing(S) ==
  IF S = {} THEN <<>>
  ELSE LET m == CHOOSE a \in S : \A b \in S : a <= b
       IN  <<m>> \o Increasing(S \ {m})

\* the class index lists passed to SubsetClass
IdxLists(dataset) ==
  {Increasing(S) : S \in SUBSET (0..(Len(dataset.metadata.classes) - 1))}

DSInitState ==
  /\ ds = None
  /\ sc_call = [op |-> "", arg |-> <<>>]
  /\ subsets = <<>>

\* a dataset is built from its folder
LoadDataset ==
  /\ ds = None
  /\ ds' \in Datasets
  /\ UNCHANGED <<sc_call, subsets, fg_vars, sg_vars, mg_vars, run_vars>>

\* SubsetClass.split(dataset, ratio)
SplitCall ==
  /\ ds # None
  /\ \E num \in 0..RatioDen :
       /\ sc_call' = [op |-> "split", arg |-> <<num, RatioDen>>]
       /\ subsets' = Split(ds, num)
  /\ UNCHANGED <<ds, fg_vars, sg_vars, mg_vars, run_vars>>

\* SubsetClass(dataset, idx), with and without idx
SubsetCall ==
  /\ ds # None
  /\ \/ \E idx \in IdxLists(ds) :
          /\ sc_call' = [op |-> "init", arg |-> idx]
          /\ subsets' = <<SubsetClassOf(ds, idx)>>
     \/ /\ sc_call' = [op |-> "init_all", arg |-> <<>>]
        /\ subsets' = <<SubsetClassAll(ds)>>
  /\ UNCHANGED <<ds, fg_vars, sg_vars, mg_vars, run_vars>>

NextSubset ==
  \/ LoadDataset
  \/ SplitCall
  \/ SubsetCall

-----------------------------------------------------------------------------
(* Specifications                                                          *)

NextFeature == FGCall \/ TwinCall \/ NewBoth \/ BothCall

vars == <<fg_vars, sg_vars, ds_vars, mg_vars, run_vars>>

Init == FGInitState /\ SGInitState /\ MGInitState /\ RunInitState /\ DSInitState

SpecFeature == Init /\ [][NextFeature]_vars

SpecStep == Init /\ [][NextStep]_vars

SpecBlockDiag == Init /\ [][NextBlockDiag]_vars

SpecMask == Init /\ [][NextMask]_vars

SpecFirstForward == Init /\ [][NextFirstForward]_vars

SpecDetach == Init /\ [][NextDetach]_vars

SpecRun == Init /\ [][NextRun]_vars

SpecConfig == Init /\ [][NextConfig]_vars

SpecSubset == Init /\ [][NextSubset]_vars

-----------------------------------------------------------------------------
(* Claims about meta_optimize                                              *)

\* the calls logged for iteration i, by name and in order
OpsAt(i) ==
  LET es == SelectSeq(meta_log, LAMBDA e : e.it = i)
  IN  [k \in 1..Len(es) |-> es[k].op]

\* iteration i is past its lines 145-153, or the call ended in them
Settled(i) == i < iteration \/ pc \in {"detach", "record", "done", "raised"}

\* the sum of total_test over the unroll iterations of the window ending at i
WindowSum(i) == Sum([k \in 1..unroll |-> result_dict[i - unroll + k].total_test])

LastBoundary ==
  LET bs == {j \in 1..(iteration - 1) : mode # "train" \/ j % unroll = 0}
  IN  IF bs = {} THEN 0 ELSE Max(bs)

MaskValues == {0, 1}

-----------------------------------------------------------------------------
(* Claims about FeatureGenerator                                           *)

\* The moment the recurrence of the claim yields for parameter p and decay
\* rate d after the gradients (or squared gradients) xs, computed from xs
\* alone: xs[1] after one call, decay * previous + (1 - decay) * x after.
RECURSIVE Recurrence(_, _)
Recurrence(r, xs) ==
  IF Len(xs) = 1
  THEN RInt(xs[1])
  ELSE LET prev == Recurrence(r, SubSeq(xs, 1, Len(xs) - 1))
           x == RInt(xs[Len(xs)])
       IN  RAdd(RMul(r, prev), RMul(RAdd(RInt(1), RMul(RInt(-1), r)), x))

GradsOf(gs, p) == [i \in 1..Len(gs) |-> gs[i][p]]
SquaresOf(gs, p) == [i \in 1..Len(gs) |-> gs[i][p] * gs[i][p]]

\* C6: after new() on two generators with different histories, the same
\* forward calls leave the same momentum and second moment in both after
\* each forward: nothing of the gradients passed before new() is left.
C6_NoLeakAcrossRuns ==
  (synced /\ fed # <<>>) =>
    /\ feature_gen.momentum = twin.momentum
    /\ feature_gen.momentum_sq = twin.momentum_sq

C6_Witness == synced /\ hist_differ /\ Len(fed) >= 2

\* C7: on the first forward after new() the two moments are g and g^2 for
\* every parameter and decay rate; on every later forward each is
\* decay * previous + (1 - decay) * (g or g^2), per decay rate.
C7_MomentumRecurrence ==
  fed # <<>> =>
    \A p \in 1..NParams : \A d \in Decays :
      /\ feature_gen.momentum[p][d] = Recurrence(DecayValues[d], GradsOf(fed, p))
      /\ feature_gen.momentum_sq[p][d] =
           Recurrence(DecayValues[d], SquaresOf(fed, p))

C7_Witness ==
  /\ Len(fed) >= 3
  /\ feature_gen.momentum[1][1] # feature_gen.momentum[1][2]
  /\ feature_gen.momentum[1][2] # RInt(fed[3][1])

-----------------------------------------------------------------------------
(* Claims about StepGenerator                                              *)

\* C8: whatever the last layer outputs (any log learning rate, any
\* direction), every entry of the returned step is a number within
\* [-0.01, 0.01].
C8_StepWithinClamp ==
  \A p \in 1..Len(sg_step) :
    /\ sg_step[p].k = "fin"
    /\ -ClampBound <= sg_step[p].v
    /\ sg_step[p].v <= ClampBound

-----------------------------------------------------------------------------
(* Claims about MaskGenerator                                              *)

\* the block holding position k of the diagonal, for blocks of these sizes
BlockAt(sizes, k) == CHOOSE i \in 1..Len(sizes) : SumTo(sizes, i - 1) < k /\ k <= SumTo(sizes, i)

\* the block-diagonal matrix of the claim: block i at offset n_1 + .. + n_(i-1)
\* on the diagonal, zero elsewhere
BlockDiagOf(tensors) ==
  LET sizes == [i \in 1..Len(tensors) |-> Rows(tensors[i])]
      n == Sum(sizes)
  IN  [r \in 1..n |-> [c \in 1..n |->
        LET i == BlockAt(sizes, r)
        IN  IF BlockAt(sizes, c) = i
            THEN tensors[i][r - SumTo(sizes, i - 1)][c - SumTo(sizes, i - 1)]
            ELSE 0]]

\* C9: every call of build_block_diag, whatever earlier calls were given,
\* returns the block-diagonal matrix of its own tensors.
C9_BlockDiagEveryCall ==
  bd_args # <<>> => bd_out = Ok(BlockDiagOf(bd_args))

\* C10: for any sequence of forward calls with any shape maps, a call
\* returns what a generator without caches (one that has just been
\* constructed, so that it builds every matrix) returns for it.
C10_CacheFree ==
  mg_args # <<>> => mg_out = MGForward(MGInit, mg_args[1], mg_args[2]).out

IdOfKey(name) == name[Len(name)]

\* C12: every key of the shape map is in exactly one group, the group of
\* its layer id; two keys are in the same group exactly when they have the
\* same layer id (the weight matrix and the bias of a layer are, keys of
\* different layers are not); no key is left without a group.
C12_LayerGrouping ==
  mg_args # <<>> =>
    LET size == mg_args[1]
        groupsOf(k) == {i \in 1..Len(layerwise) : k \in layerwise[i].xs}
    IN  /\ \A k \in 1..Len(size) :
             /\ Cardinality(groupsOf(k)) = 1
             /\ \A i \in groupsOf(k) : layerwise[i].n_set = IdOfKey(size[k].name)
        /\ \A k1, k2 \in 1..Len(size) :
             (groupsOf(k1) = groupsOf(k2)) <=>
               (IdOfKey(size[k1].name) = IdOfKey(size[k2].name))
        /\ \A i \in 1..Len(layerwise) : layerwise[i].xs # {}

C12_Witness ==
  /\ mg_args # <<>>
  /\ Len(mg_args[1]) = 4
  /\ Len(layerwise) = 2
  /\ layerwise[1].xs = {1, 3}
  /\ layerwise[2].xs = {2, 4}

\* the coefficient b, detached and with its values kept, is a
SameDetached(b, a) ==
  IF b = None THEN a = None
  ELSE a # None /\ a[1] = "tensor" /\ a[3] = FALSE /\ a[2] = b[2]

\* C13: detach_lambdas_, called in any state of a constructed generator,
\* completes without error and leaves lamb, gamm_g and every entry of
\* gamm_l detached, with their values and the structure of gamm_l kept.
C13_DetachLambdas ==
  dl_out.called =>
    /\ dl_out.ok
    /\ SameDetached(dl_out.before.lamb, dl_out.after.lamb)
    /\ SameDetached(dl_out.before.gamm_g, dl_out.after.gamm_g)
    /\ IF dl_out.before.gamm_l = None THEN dl_out.after.gamm_l = None
       ELSE /\ Len(dl_out.after.gamm_l) = Len(dl_out.before.gamm_l)
            /\ dl_out.after.gamm_l[1] = dl_out.before.gamm_l[1]
            /\ \A i \in 2..Len(dl_out.before.gamm_l) :
                 SameDetached(dl_out.before.gamm_l[i], dl_out.after.gamm_l[i])

C16_ConfigErrorsFailFast ==
  /\ (built.cls = "Optimizer" /\ built.arg \notin {"none", "normal", "unified"}) =>
       ~built.ok /\ built.obj = <<>>
  /\ (built.cls # "Optimizer" /\ built.arg <= 0) =>
       ~built.ok /\ built.obj = <<>>
  /\ (pc # "idle" /\ mode \notin {"train", "valid", "test"}) =>
       /\ pc = "raised"
       /\ iteration = 0
       /\ result_dict = <<>>
       /\ meta_log = <<>>

C16_Witness ==
  /\ built.cls = "MaskGenerator" /\ built.arg = 0 /\ ~built.ok
  /\ pc = "raised" /\ mode = "eval"

PositionsOf(subset) == {subset.indices[i] : i \in 1..Len(subset.indices)}

\* every item reachable through the subset is of a class its metadata lists
ItemsOfListedClasses(subset) ==
  \A i \in 0..(Len(subset.indices) - 1) :
    \E k \in 1..Len(subset.metadata.classes) :
      subset.metadata.classes[k] =
        Lookup(ds.metadata.idx_to_class, GetItem(ds, subset, i)[2])

\* C18: the two subsets that split returns select disjoint positions whose
\* union is every position of the dataset, and every item reachable
\* through a subset, from split or built with a class index list, is of a
\* class listed in the subset's metadata.
C18_SubsetsPartitionByClass ==
  subsets # <<>> =>
    /\ \A k \in 1..Len(subsets) : ItemsOfListedClasses(subsets[k])
    /\ sc_call.op = "split" =>
         /\ PositionsOf(subsets[1]) \cap PositionsOf(subsets[2]) = {}
         /\ PositionsOf(subsets[1]) \cup PositionsOf(subsets[2]) =
              0..(Len(ds.samples) - 1)

=============================================================================
